---- MODULE Spec2Model ----
(***************************************************************************)
(* KairoCore src/utils/crypto_utils.js: encryptWithDynamicIV and           *)
(* decryptWithDynamicIV (AES-128-CBC, random IV, embedded timestamp).      *)
(*                                                                         *)
(* Strings are sequences of code points, byte arrays (CryptoJS WordArray)  *)
(* are sequences of 0..255.  crypto-js is an external dependency: its      *)
(* encoders, padding and CBC mode are modelled as the library computes     *)
(* them; the AES block transform itself is represented by a keyed          *)
(* permutation of 16-byte blocks (AesEncryptBlock / AesDecryptBlock), of   *)
(* which only "decryptBlock inverts encryptBlock under the same key" is    *)
(* relied upon.                                                            *)
(***************************************************************************)
EXTENDS Integers, Sequences, FiniteSets, TLC

VARIABLES now, wire, last, prev

vars == <<now, wire, last, prev>>

(***************************************************************************)
(* Characters                                                              *)
(***************************************************************************)
CharCode ==
    ("{" :> 123) @@ ("}" :> 125) @@ ("\"" :> 34) @@ (":" :> 58) @@ ("," :> 44) @@
    ("\\" :> 92) @@ ("/" :> 47) @@ ("-" :> 45) @@ ("+" :> 43) @@ ("=" :> 61) @@
    ("." :> 46) @@ ("[" :> 91) @@ ("*" :> 42) @@
    ("0" :> 48) @@ ("1" :> 49) @@ ("2" :> 50) @@ ("3" :> 51) @@ ("4" :> 52) @@
    ("5" :> 53) @@ ("6" :> 54) @@ ("7" :> 55) @@ ("8" :> 56) @@ ("9" :> 57) @@
    ("a" :> 97) @@ ("b" :> 98) @@ ("c" :> 99) @@ ("d" :> 100) @@ ("e" :> 101) @@
    ("f" :> 102) @@ ("l" :> 108) @@ ("n" :> 110) @@ ("r" :> 114) @@ ("s" :> 115) @@
    ("t" :> 116) @@ ("u" :> 117) @@ ("v" :> 118) @@ ("x" :> 120) @@
    ("E" :> 69) @@ ("e'" :> 233)

\* The string whose characters are listed in cs ("e'" stands for U+00E9).
Str(cs) == [i \in 1..Len(cs) |-> CharCode[cs[i]]]

Ch(c) == CharCode[c]

Pow2(n) == IF n = 0 THEN 1 ELSE IF n = 1 THEN 2 ELSE IF n = 2 THEN 4
           ELSE IF n = 3 THEN 8 ELSE IF n = 4 THEN 16 ELSE IF n = 5 THEN 32
           ELSE IF n = 6 THEN 64 ELSE IF n = 7 THEN 128 ELSE 256

RECURSIVE XorBits(_, _, _)
XorBits(a, b, n) ==
    IF n = 0 THEN 0
    ELSE ((a + b) % 2) + 2 * XorBits(a \div 2, b \div 2, n - 1)

\* a ^ b on bytes
Xor8(a, b) == XorBits(a, b, 8)

(***************************************************************************)
(* CryptoJS.enc.Utf8                                                       *)
(***************************************************************************)
Utf8EncodeChar(c) ==
    IF c < 128 THEN <<c>>
    ELSE IF c < 2048 THEN <<192 + (c \div 64), 128 + (c % 64)>>
    ELSE <<224 + (c \div 4096), 128 + ((c \div 64) % 64), 128 + (c % 64)>>

RECURSIVE Utf8Parse(_)
\* CryptoJS.enc.Utf8.parse: the UTF-8 bytes of a string
Utf8Parse(s) ==
    IF s = <<>> THEN <<>> ELSE Utf8EncodeChar(Head(s)) \o Utf8Parse(Tail(s))

IsCont(bs, i) == i <= Len(bs) /\ bs[i] >= 128 /\ bs[i] < 192

Malformed == <<-1>>

RECURSIVE Utf8Decode(_, _)
\* decodeURIComponent(escape(latin1)) from byte i on: the code points, or
\* Malformed where decodeURIComponent throws URIError.
Utf8Decode(bs, i) ==
    IF i > Len(bs) THEN <<>>
    ELSE LET b == bs[i]
             n == IF b < 128 THEN 1
                  ELSE IF b >= 194 /\ b < 224 THEN 2
                  ELSE IF b >= 224 /\ b < 240 THEN 3
                  ELSE IF b >= 240 /\ b < 245 THEN 4
                  ELSE 0
             okc == /\ n > 0
                    /\ \A j \in 1..(n - 1) : IsCont(bs, i + j)
             cp == IF n = 1 THEN b
                   ELSE IF n = 2 THEN (b - 192) * 64 + (bs[i + 1] - 128)
                   ELSE IF n = 3 THEN (b - 224) * 4096 + (bs[i + 1] - 128) * 64
                                      + (bs[i + 2] - 128)
                   ELSE (b - 240) * 262144 + (bs[i + 1] - 128) * 4096
                        + (bs[i + 2] - 128) * 64 + (bs[i + 3] - 128)
             valid == /\ okc
                      /\ (n = 3 => cp >= 2048 /\ ~(cp >= 55296 /\ cp < 57344))
                      /\ (n = 4 => cp >= 65536 /\ cp < 1114112)
         IN IF ~valid THEN Malformed
            ELSE LET rest == Utf8Decode(bs, i + n)
                 IN IF rest = Malformed THEN Malformed ELSE <<cp>> \o rest

\* wordArray.toString(CryptoJS.enc.Utf8) of the first sigBytes bytes of words
Utf8Stringify(words, sigBytes) ==
    Utf8Decode(SubSeq(words, 1, IF sigBytes < 0 THEN 0 ELSE sigBytes), 1)

(***************************************************************************)
(* JSON.stringify({t: Date.now(), v: value})                               *)
(***************************************************************************)
RECURSIVE Digits(_)
\* the decimal digits of a non-negative integer
Digits(n) == IF n < 10 THEN <<48 + n>> ELSE Digits(n \div 10) \o <<48 + (n % 10)>>

HexDigit(d) == IF d < 10 THEN 48 + d ELSE 87 + d

\* a variant that copies every character unescaped
JsonQuoteCharRaw(c) == <<c>>

\* JSON.stringify's quoting of one character of a string
JsonQuoteChar(c) ==
    IF c = 34 THEN <<92, 34>>
    ELSE IF c = 92 THEN <<92, 92>>
    ELSE IF c = 8 THEN <<92, 98>>
    ELSE IF c = 9 THEN <<92, 116>>
    ELSE IF c = 10 THEN <<92, 110>>
    ELSE IF c = 12 THEN <<92, 102>>
    ELSE IF c = 13 THEN <<92, 114>>
    ELSE IF c < 32 THEN <<92, 117, 48, 48, HexDigit(c \div 16), HexDigit(c % 16)>>
    ELSE <<c>>

RECURSIVE JsonQuoteBody(_)
JsonQuoteBody(s) ==
    IF s = <<>> THEN <<>> ELSE JsonQuoteChar(Head(s)) \o JsonQuoteBody(Tail(s))

JsonQuote(s) == <<34>> \o JsonQuoteBody(s) \o <<34>>

\* JSON.stringify({t: t, v: value}) for a number t and a string value
JsonStringifyPayload(t, value) ==
    Str(<<"{", "\"", "t", "\"", ":">>) \o Digits(t)
        \o Str(<<",", "\"", "v", "\"", ":">>) \o JsonQuote(value) \o Str(<<"}">>)

(***************************************************************************)
(* CryptoJS.AES, CryptoJS.mode.CBC, CryptoJS.pad.Pkcs7                     *)
(***************************************************************************)
BlockSize == 16

\* byte i (1-based) of a WordArray; a word the array lacks reads as 0
ByteAt(bs, i) == IF i >= 1 /\ i <= Len(bs) THEN bs[i] ELSE 0

RECURSIVE KeySum(_, _)
KeySum(key, i) == IF i > Len(key) THEN 0 ELSE key[i] + KeySum(key, i + BlockSize)

\* the round-key byte applied to position i of a block
KeyByte(key, i) == KeySum(key, i) % 256

Rot(i) == (i % BlockSize) + 1

RotInv(j) == ((j + BlockSize - 2) % BlockSize) + 1

\* cipher.encryptBlock: a permutation of the 16-byte blocks chosen by key
AesEncryptBlock(key, b) ==
    [i \in 1..BlockSize |-> (b[Rot(i)] + KeyByte(key, i) + i) % 256]

\* cipher.decryptBlock: the inverse permutation under the same key
AesDecryptBlock(key, c) ==
    [j \in 1..BlockSize |->
        (c[RotInv(j)] + 512 - KeyByte(key, RotInv(j)) - RotInv(j)) % 256]

XorBlock(a, b) == [i \in 1..BlockSize |-> Xor8(a[i], b[i])]

\* a variant that adds no padding to data that is already block-aligned
Pkcs7PadNoExtraBlock(data) ==
    LET nPaddingBytes == (BlockSize - (Len(data) % BlockSize)) % BlockSize
    IN data \o [i \in 1..nPaddingBytes |-> nPaddingBytes]

\* CryptoJS.pad.Pkcs7.pad
Pkcs7Pad(data) ==
    LET nPaddingBytes == BlockSize - (Len(data) % BlockSize)
    IN data \o [i \in 1..nPaddingBytes |-> nPaddingBytes]

RECURSIVE CbcEncrypt(_, _, _)
\* CBC encryptor over whole blocks; prevBlock starts as the IV
CbcEncrypt(key, prevBlock, data) ==
    IF data = <<>> THEN <<>>
    ELSE LET c == AesEncryptBlock(key, XorBlock(SubSeq(data, 1, BlockSize), prevBlock))
         IN c \o CbcEncrypt(key, c, SubSeq(data, BlockSize + 1, Len(data)))

\* CryptoJS.AES.encrypt(message, key, {iv, CBC, Pkcs7}).ciphertext
AesCbcEncrypt(message, key, iv) == CbcEncrypt(key, iv, Pkcs7Pad(Utf8Parse(message)))

(***************************************************************************)
(* CryptoJS.enc.Base64                                                     *)
(***************************************************************************)
\* the character of a 6-bit value (map.charAt)
B64Char(n) ==
    IF n < 26 THEN 65 + n
    ELSE IF n < 52 THEN 97 + (n - 26)
    ELSE IF n < 62 THEN 48 + (n - 52)
    ELSE IF n = 62 THEN 43 ELSE 47

B64Pad == Ch("=")

\* reverseMap[charCode]: a character outside the alphabet maps to undefined,
\* which the shifts of parseLoop read as 0
B64Rev(c) ==
    IF c >= 65 /\ c <= 90 THEN c - 65
    ELSE IF c >= 97 /\ c <= 122 THEN c - 97 + 26
    ELSE IF c >= 48 /\ c <= 57 THEN c - 48 + 52
    ELSE IF c = 43 THEN 62
    ELSE IF c = 47 THEN 63
    ELSE 0

RECURSIVE Base64Stringify(_)
\* CryptoJS.enc.Base64.stringify
Base64Stringify(bs) ==
    IF bs = <<>> THEN <<>>
    ELSE LET n == Len(bs)
             triplet == ByteAt(bs, 1) * 65536 + ByteAt(bs, 2) * 256 + ByteAt(bs, 3)
             c1 == B64Char(triplet \div 262144)
             c2 == B64Char((triplet \div 4096) % 64)
             c3 == B64Char((triplet \div 64) % 64)
             c4 == B64Char(triplet % 64)
         IN IF n = 1 THEN <<c1, c2, B64Pad, B64Pad>>
            ELSE IF n = 2 THEN <<c1, c2, c3, B64Pad>>
            ELSE <<c1, c2, c3, c4>> \o Base64Stringify(SubSeq(bs, 4, n))

RECURSIVE IndexOf(_, _, _)
\* str.indexOf(c) from position i (1-based), 0 when absent
IndexOf(s, c, i) ==
    IF i > Len(s) THEN 0 ELSE IF s[i] = c THEN i ELSE IndexOf(s, c, i + 1)

RECURSIVE B64ParseLoop(_, _, _)
\* parseLoop: i is the 0-based index into the string, as in the library
B64ParseLoop(s, len, i) ==
    IF i >= len THEN <<>>
    ELSE IF i % 4 = 0 THEN B64ParseLoop(s, len, i + 1)
    ELSE LET m == i % 4
             bits1 == (B64Rev(s[i]) * Pow2(2 * m)) % 256
             bits2 == B64Rev(s[i + 1]) \div Pow2(6 - 2 * m)
         IN <<bits1 + bits2>> \o B64ParseLoop(s, len, i + 1)

\* CryptoJS.enc.Base64.parse
Base64Parse(s) ==
    LET paddingIndex == IndexOf(s, B64Pad, 1)
        len == IF paddingIndex # 0 THEN paddingIndex - 1 ELSE Len(s)
    IN B64ParseLoop(s, len, 0)

(***************************************************************************)
(* encryptWithDynamicIV                                                    *)
(***************************************************************************)
StringResult(s) == [type |-> "string", num |-> 0, str |-> s]

\* a variant that encrypts under an all-zero IV whatever was drawn
encryptWithStaticIV(value, keyStr, t, iv) ==
    LET payload == JsonStringifyPayload(t, value)
        key == Utf8Parse(keyStr)
        zero == [i \in 1..BlockSize |-> 0]
    IN StringResult(Base64Stringify(zero \o AesCbcEncrypt(payload, key, zero)))

\* encryptWithDynamicIV(value, keyStr) when Date.now() reads t and
\* WordArray.random(16) returns iv
encryptWithDynamicIV(value, keyStr, t, iv) ==
    LET payload == JsonStringifyPayload(t, value)
        key == Utf8Parse(keyStr)
        ciphertext == AesCbcEncrypt(payload, key, iv)
        combined == iv \o ciphertext
    IN StringResult(Base64Stringify(combined))

(***************************************************************************)
(* JavaScript values: uniform records, so that any two can be compared     *)
(***************************************************************************)
Null == [type |-> "null", num |-> 0, str |-> <<>>]

Undefined == [type |-> "undefined", num |-> 0, str |-> <<>>]

NumberValue(n) == [type |-> "number", num |-> n, str |-> <<>>]

BoolValue(b) == [type |-> "boolean", num |-> IF b THEN 1 ELSE 0, str |-> <<>>]

\* a construct outside the modelled subset of JSON / ToNumber; no reachable
\* call may produce it (see Supported)
Unsupported == [type |-> "unsupported", num |-> 0, str |-> <<>>]

ObjectValue(props) == [type |-> "object", num |-> 0, str |-> <<>>, props |-> props]

(***************************************************************************)
(* JSON.parse: objects of scalar members, strings, integers, literals      *)
(***************************************************************************)
IsWs(c) == c \in {32, 9, 10, 13}

IsDigit(c) == c >= 48 /\ c <= 57

IsHex(c) == IsDigit(c) \/ (c >= 97 /\ c <= 102) \/ (c >= 65 /\ c <= 70)

HexVal(c) == IF IsDigit(c) THEN c - 48 ELSE IF c >= 97 THEN c - 87 ELSE c - 55

Syntax(i) == [st |-> "syntax", pos |-> i, val |-> Undefined]

Unsup(i) == [st |-> "unsupported", pos |-> i, val |-> Unsupported]

Parsed(i, v) == [st |-> "ok", pos |-> i, val |-> v]

RECURSIVE SkipWs(_, _)
SkipWs(s, i) == IF i <= Len(s) /\ IsWs(s[i]) THEN SkipWs(s, i + 1) ELSE i

RECURSIVE ParseString(_, _, _)
\* i is the position after the opening quote
ParseString(s, i, acc) ==
    IF i > Len(s) THEN Syntax(i)
    ELSE LET c == s[i] IN
      IF c = 34 THEN Parsed(i + 1, StringResult(acc))
      ELSE IF c < 32 THEN Syntax(i)
      ELSE IF c # 92 THEN ParseString(s, i + 1, Append(acc, c))
      ELSE IF i + 1 > Len(s) THEN Syntax(i)
      ELSE LET e == s[i + 1] IN
        IF e \in {34, 92, 47} THEN ParseString(s, i + 2, Append(acc, e))
        ELSE IF e = 98 THEN ParseString(s, i + 2, Append(acc, 8))
        ELSE IF e = 102 THEN ParseString(s, i + 2, Append(acc, 12))
        ELSE IF e = 110 THEN ParseString(s, i + 2, Append(acc, 10))
        ELSE IF e = 114 THEN ParseString(s, i + 2, Append(acc, 13))
        ELSE IF e = 116 THEN ParseString(s, i + 2, Append(acc, 9))
        ELSE IF e # 117 THEN Syntax(i)
        ELSE IF i + 5 > Len(s) \/ \E k \in 2..5 : ~IsHex(s[i + k]) THEN Syntax(i)
        ELSE LET u == HexVal(s[i + 2]) * 4096 + HexVal(s[i + 3]) * 256
                      + HexVal(s[i + 4]) * 16 + HexVal(s[i + 5])
             IN IF u >= 55296 /\ u < 57344 THEN Unsup(i)
                ELSE ParseString(s, i + 6, Append(acc, u))

RECURSIVE ParseDigits(_, _, _)
ParseDigits(s, i, acc) ==
    IF i <= Len(s) /\ IsDigit(s[i]) THEN ParseDigits(s, i + 1, acc * 10 + (s[i] - 48))
    ELSE [pos |-> i, num |-> acc]

ParseNumber(s, i) ==
    LET neg == s[i] = 45
        j == IF neg THEN i + 1 ELSE i
    IN IF j > Len(s) \/ ~IsDigit(s[j]) THEN Syntax(j)
       ELSE LET d == IF s[j] = 48 THEN [pos |-> j + 1, num |-> 0]
                     ELSE ParseDigits(s, j, 0)
            IN IF d.pos <= Len(s) /\ s[d.pos] \in {46, 101, 69} THEN Unsup(d.pos)
               ELSE Parsed(d.pos, NumberValue(IF neg THEN 0 - d.num ELSE d.num))

ParseLiteral(s, i, word, v) ==
    IF i + Len(word) - 1 <= Len(s) /\ SubSeq(s, i, i + Len(word) - 1) = word
    THEN Parsed(i + Len(word), v)
    ELSE Syntax(i)

\* a value that is not an object or array; i is past any white space
ParseScalar(s, i) ==
    IF i > Len(s) THEN Syntax(i)
    ELSE LET c == s[i] IN
      IF c = 34 THEN ParseString(s, i + 1, <<>>)
      ELSE IF c = 45 \/ IsDigit(c) THEN ParseNumber(s, i)
      ELSE IF c = 116 THEN ParseLiteral(s, i, Str(<<"t", "r", "u", "e">>), BoolValue(TRUE))
      ELSE IF c = 102
        THEN ParseLiteral(s, i, Str(<<"f", "a", "l", "s", "e">>), BoolValue(FALSE))
      ELSE IF c = 110 THEN ParseLiteral(s, i, Str(<<"n", "u", "l", "l">>), Null)
      ELSE IF c \in {123, 91} THEN Unsup(i)
      ELSE Syntax(i)

RECURSIVE ParseMembers(_, _, _)
\* the members of an object from position i on; a repeated key keeps the last
ParseMembers(s, i, props) ==
    LET j == SkipWs(s, i) IN
    IF j > Len(s) \/ s[j] # 34 THEN Syntax(j)
    ELSE LET key == ParseString(s, j + 1, <<>>) IN
      IF key.st # "ok" THEN key
      ELSE LET k == SkipWs(s, key.pos) IN
        IF k > Len(s) \/ s[k] # 58 THEN Syntax(k)
        ELSE LET v == ParseScalar(s, SkipWs(s, k + 1)) IN
          IF v.st # "ok" THEN v
          ELSE LET m == SkipWs(s, v.pos)
                   props2 == (key.val.str :> v.val) @@ props
               IN IF m > Len(s) THEN Syntax(m)
                  ELSE IF s[m] = 44 THEN ParseMembers(s, m + 1, props2)
                  ELSE IF s[m] = 125 THEN Parsed(m + 1, ObjectValue(props2))
                  ELSE Syntax(m)

ParseValue(s, i) ==
    IF i <= Len(s) /\ s[i] = 123
    THEN LET j == SkipWs(s, i + 1)
         IN IF j <= Len(s) /\ s[j] = 125 THEN Parsed(j + 1, ObjectValue(<<>>))
            ELSE ParseMembers(s, j, <<>>)
    ELSE ParseScalar(s, i)

\* JSON.parse(text): st = "syntax" where it throws SyntaxError
JsonParse(text) ==
    LET v == ParseValue(text, SkipWs(text, 1)) IN
    IF v.st # "ok" THEN v
    ELSE IF SkipWs(text, v.pos) # Len(text) + 1 THEN Syntax(v.pos)
    ELSE v

(***************************************************************************)
(* property access, truthiness and arithmetic on parsed values             *)
(***************************************************************************)
\* data[name] for data that is not null (property access on null throws)
GetProp(data, name) ==
    IF data.type = "object" /\ name \in DOMAIN data.props THEN data.props[name]
    ELSE Undefined

\* the condition of if (x)
Truthy(x) ==
    IF x.type \in {"undefined", "null"} THEN FALSE
    ELSE IF x.type \in {"boolean", "number"} THEN x.num # 0
    ELSE IF x.type = "string" THEN x.str # <<>>
    ELSE TRUE

NaN == [nan |-> TRUE, n |-> 0, ok |-> TRUE]

Num(n) == [nan |-> FALSE, n |-> n, ok |-> TRUE]

\* ToNumber(x) for a truthy x, as now - x applies it; ok is FALSE outside
\* the modelled subset (numeric strings other than plain digits)
ToNumber(x) ==
    IF x.type \in {"number", "boolean"} THEN Num(x.num)
    ELSE IF x.type = "string" THEN
        IF \A i \in 1..Len(x.str) : IsDigit(x.str[i])
        THEN Num(ParseDigits(x.str, 1, 0).num)
        ELSE IF \E i \in 1..Len(x.str) : IsDigit(x.str[i]) \/ IsWs(x.str[i]) \/ x.str[i] = 73
        THEN [nan |-> FALSE, n |-> 0, ok |-> FALSE]
        ELSE NaN
    ELSE [nan |-> FALSE, n |-> 0, ok |-> FALSE]

Abs(n) == IF n < 0 THEN 0 - n ELSE n

(***************************************************************************)
(* decryptWithDynamicIV                                                    *)
(***************************************************************************)
FreshnessWindow == 60000

RECURSIVE CbcDecrypt(_, _, _)
\* CBC decryptor over whole blocks; prevBlock starts as the IV
CbcDecrypt(key, prevBlock, data) ==
    IF data = <<>> THEN <<>>
    ELSE LET thisBlock == SubSeq(data, 1, BlockSize)
         IN XorBlock(AesDecryptBlock(key, thisBlock), prevBlock)
              \o CbcDecrypt(key, thisBlock, SubSeq(data, BlockSize + 1, Len(data)))

\* the blocks _process(flush) hands to the decryptor: ceil(n / 16) blocks,
\* the words the data lacks reading as 0
FlushBlocks(data) ==
    LET n == Len(data)
        nBlocksReady == (n + BlockSize - 1) \div BlockSize
    IN [i \in 1..(nBlocksReady * BlockSize) |-> ByteAt(data, i)]

\* CryptoJS.pad.Pkcs7.unpad: the count is the low byte of the word holding
\* the last significant byte, and is not validated
Pkcs7Unpad(words, sigBytes) ==
    LET nPaddingBytes == ByteAt(words, 4 * ((sigBytes - 1) \div 4) + 4)
    IN sigBytes - nPaddingBytes

\* CryptoJS.AES.decrypt({ciphertext}, key, {iv, CBC, Pkcs7}): the words and
\* sigBytes of the result
AesCbcDecrypt(ciphertext, sigBytes, key, iv) ==
    IF sigBytes <= 0 THEN [words |-> <<>>, sigBytes |-> sigBytes]
    ELSE LET words == CbcDecrypt(key, iv, FlushBlocks(ciphertext))
         IN [words |-> words, sigBytes |-> Pkcs7Unpad(words, sigBytes)]

\* a variant without Math.abs: only timestamps in the past can expire
ExpiredPastOnly(clock, t) ==
    LET n == ToNumber(t) IN ~n.nan /\ clock - n.n > FreshnessWindow

\* a variant with a window of 6,000 ms
ExpiredShortWindow(clock, t) ==
    LET n == ToNumber(t) IN ~n.nan /\ Abs(clock - n.n) > 6000

\* the freshness test of step 7: TRUE when the payload is rejected as expired
Expired(clock, t) ==
    LET n == ToNumber(t) IN ~n.nan /\ Abs(clock - n.n) > FreshnessWindow

\* steps 6 and 7 on the decrypted string
decodePayload(jsonStr, clock) ==
    IF jsonStr = Malformed THEN Null
    ELSE IF jsonStr = <<>> THEN Null
    ELSE LET p == JsonParse(jsonStr) IN
      IF p.st = "unsupported" THEN Unsupported
      ELSE IF p.st = "syntax" THEN Null
      ELSE LET data == p.val IN
        IF data.type = "null" THEN Null
        ELSE LET t == GetProp(data, Str(<<"t">>)) IN
          IF Truthy(t) /\ ~ToNumber(t).ok THEN Unsupported
          ELSE IF Truthy(t) /\ Expired(clock, t) THEN Null
          ELSE GetProp(data, Str(<<"v">>))

\* step 2: the first 16 bytes (4 words) of the decoded data
SplitIV(rawData) == [i \in 1..BlockSize |-> ByteAt(rawData, i)]

\* step 3: the remaining words, and sigBytes - 16 as their length
SplitCiphertext(rawData) ==
    [words |-> SubSeq(rawData, BlockSize + 1, Len(rawData)),
     sigBytes |-> Len(rawData) - BlockSize]

\* steps 1 to 6: decrypted.toString(CryptoJS.enc.Utf8), or Malformed
decryptedString(ciphertextBase64, keyStr) ==
    LET rawData == Base64Parse(ciphertextBase64)
        iv == SplitIV(rawData)
        ciphertext == SplitCiphertext(rawData)
        key == Utf8Parse(keyStr)
        decrypted == AesCbcDecrypt(ciphertext.words, ciphertext.sigBytes, key, iv)
    IN Utf8Stringify(decrypted.words, decrypted.sigBytes)

\* decryptWithDynamicIV(ciphertextBase64, keyStr) when Date.now() reads clock
decryptWithDynamicIV(ciphertextBase64, keyStr, clock) ==
    decodePayload(decryptedString(ciphertextBase64, keyStr), clock)

(***************************************************************************)
(* Inputs                                                                  *)
(***************************************************************************)
MaxValueLen == 1

MaxWire == 2

\* the characters values are drawn from: a, the quote (escaped by
\* JSON.stringify) and U+00E9 (two bytes in UTF-8)
ValueChars == {Ch("a"), Ch("\""), Ch("e'")}

RECURSIVE StringsUpTo(_)
StringsUpTo(n) ==
    IF n = 0 THEN {<<>>}
    ELSE LET shorter == StringsUpTo(n - 1)
         IN shorter \cup {Append(s, c) : s \in {x \in shorter : Len(x) = n - 1},
                                         c \in ValueChars}

Values == StringsUpTo(MaxValueLen)

\* readings of Date.now(): at and next to the epoch, and one window later
ClockValues ==
    {0, 1, FreshnessWindow, FreshnessWindow + 1, FreshnessWindow + 2}

K1 == Str(<<"0", "1", "2", "3", "4", "5", "6", "7",
            "8", "9", "a", "b", "c", "d", "e", "f">>)

K2 == Str(<<"f", "e", "d", "c", "b", "a", "9", "8",
            "7", "6", "5", "4", "3", "2", "1", "0">>)

\* 16-byte keys
ValidKeys == {K1, K2}

\* keys of 0, 15, 17 and 32 bytes
BadKeys == {<<>>, SubSeq(K1, 1, 15), K1 \o Str(<<"0">>), K1 \o K1}

\* outcomes of CryptoJS.lib.WordArray.random(16)
RandomIV(n) == [i \in 1..BlockSize |-> (n * 37 + i * 11) % 256]

\* two outcomes of the draw are told apart
IVs == {RandomIV(1), RandomIV(2)}

(***************************************************************************)
(* State: the clock, the encrypt calls made so far with the blobs they     *)
(* returned, the last decrypt call and, where a specification records it,  *)
(* the decrypt call before that one                                        *)
(***************************************************************************)
NoCall == [op |-> "none", blob |-> <<>>, key |-> <<>>, clock |-> 0,
           result |-> Undefined]

Init ==
    /\ now = 0
    /\ wire = <<>>
    /\ last = NoCall
    /\ prev = NoCall

\* Date.now() changes (the wall clock is not monotonic: it may be set back)
Tick(t) ==
    /\ t # now
    /\ now' = t
    /\ UNCHANGED <<wire, last>>

\* a call of encryptWithDynamicIV(value, keyStr) that draws iv
Encrypt(value, keyStr, iv) ==
    /\ Len(wire) < MaxWire
    /\ wire' = Append(wire, [value |-> value, key |-> keyStr, t |-> now, iv |-> iv,
                             result |-> encryptWithDynamicIV(value, keyStr, now, iv)])
    /\ UNCHANGED <<now, last>>

\* a call of decryptWithDynamicIV(blob, keyStr)
Decrypt(blob, keyStr) ==
    /\ last' = [op |-> "decrypt", blob |-> blob, key |-> keyStr, clock |-> now,
                result |-> decryptWithDynamicIV(blob, keyStr, now)]
    /\ UNCHANGED <<now, wire>>

\* One exchange: a value is encrypted once under a 16-byte key, and the
\* blob is decrypted with that key at any later or earlier clock reading.
Next ==
    \/ \E t \in ClockValues : Tick(t) /\ UNCHANGED prev
    \/ \E value \in Values, keyStr \in ValidKeys, iv \in IVs :
          wire = <<>> /\ Encrypt(value, keyStr, iv) /\ UNCHANGED prev
    \/ \E i \in 1..Len(wire) :
          Decrypt(wire[i].result.str, wire[i].key) /\ UNCHANGED prev

Spec == Init /\ [][Next]_vars

(***************************************************************************)
(* Several callers: the scenario value of the specification, "s3cr3t"      *)
(* under "0123456789abcdef", encrypted and decrypted in any interleaving   *)
(***************************************************************************)
Secret == Str(<<"s", "3", "c", "r", "3", "t">>)

CallerClocks == {1, FreshnessWindow}

\* prev keeps the decrypt call that last replaces
NextCallers ==
    \/ \E t \in CallerClocks : Tick(t) /\ UNCHANGED prev
    \/ \E iv \in IVs : Encrypt(Secret, K1, iv) /\ UNCHANGED prev
    \/ \E i \in 1..Len(wire) :
          Decrypt(wire[i].result.str, wire[i].key) /\ prev' = last

SpecCallers == Init /\ [][NextCallers]_vars

(***************************************************************************)
(* Misuse: keys that are not 16 bytes long                                 *)
(***************************************************************************)
NextKeys ==
    \/ \E t \in ClockValues : Tick(t) /\ UNCHANGED prev
    \/ \E value \in Values, keyStr \in ValidKeys \cup BadKeys, iv \in IVs :
          wire = <<>> /\ Encrypt(value, keyStr, iv) /\ UNCHANGED prev

SpecKeys == Init /\ [][NextKeys]_vars

(***************************************************************************)
(* Blobs that encryptWithDynamicIV did not produce: a peer holding the     *)
(* key encrypts a plaintext of its own choosing, or the blob is not the    *)
(* encoding of an IV and a ciphertext at all                               *)
(***************************************************************************)
PeerTexts ==
    { Str(<<"{", "\"", "v", "\"", ":", "\"", "x", "\"", "}">>),
      Str(<<"{", "\"", "t", "\"", ":", "0", ",",
            "\"", "v", "\"", ":", "\"", "x", "\"", "}">>),
      Str(<<"{", "\"", "t", "\"", ":", "\"", "x", "\"", ",",
            "\"", "v", "\"", ":", "\"", "x", "\"", "}">>),
      Str(<<"{", "\"", "t", "\"", ":", "1", ",",
            "\"", "v", "\"", ":", "\"", "x", "\"", "}">>),
      Str(<<"{", "\"", "t", "\"", ":", "1", ",", "\"", "v", "\"", ":", "7", "}">>),
      Str(<<"{", "\"", "t", "\"", ":", "1", "}">>),
      Str(<<"7">>),
      Str(<<"n", "u", "l", "l">>),
      Str(<<"x">>),
      <<>> }

\* the plaintext bytes a peer encrypts; 0xFF is not UTF-8
PeerPlaintexts == {Utf8Parse(text) : text \in PeerTexts} \cup {<<255>>}

\* steps 4 to 6 of encryptWithDynamicIV applied to plaintext bytes
PeerEncrypt(plaintext, key, iv) ==
    Base64Stringify(iv \o CbcEncrypt(key, iv, Pkcs7Pad(plaintext)))

\* the empty string, characters outside the base64 alphabet, an IV alone
ShortBlobs ==
    {<<>>, Str(<<"*", "*", "*", "*">>), Base64Stringify(RandomIV(1))}

ForeignBlobs ==
    {PeerEncrypt(plaintext, Utf8Parse(K1), RandomIV(1)) : plaintext \in PeerPlaintexts}
        \cup ShortBlobs

NextForeign ==
    \/ \E t \in ClockValues : Tick(t) /\ UNCHANGED prev
    \/ \E blob \in ForeignBlobs : Decrypt(blob, K1) /\ UNCHANGED prev

SpecForeign == Init /\ [][NextForeign]_vars

\* every reachable call stays inside the modelled subset of JSON and ToNumber
Supported == last.result.type # "unsupported"

(***************************************************************************)
(* Properties                                                              *)
(***************************************************************************)
NoValue(r) == r.type \in {"null", "undefined"}

\* the encrypt calls whose blob, under the same key, the decrypt call c took
Sources(c) ==
    {i \in 1..Len(wire) : wire[i].result.str = c.blob /\ wire[i].key = c.key}

\* the serialized payload of encrypt call i, as UTF-8 bytes
PayloadBytes(i) == Utf8Parse(JsonStringifyPayload(wire[i].t, wire[i].value))

\* C1 (Spec): a blob decrypted with the key it was encrypted under, at a
\* clock reading at most 59,999 ms away from the one it was encrypted at,
\* yields exactly the encrypted value, the empty string included.
RoundTrip ==
    last.op = "decrypt" =>
        \A i \in Sources(last) :
            Abs(last.clock - wire[i].t) <= FreshnessWindow - 1
                => last.result = StringResult(wire[i].value)

\* a value that JSON.stringify has to escape came back 59,999 ms later
RoundTripWitness ==
    /\ last.op = "decrypt"
    /\ \E i \in Sources(last) :
          /\ last.clock - wire[i].t = FreshnessWindow - 1
          /\ wire[i].value = Str(<<"\"">>)
          /\ last.result = StringResult(wire[i].value)

\* C2 (Spec): decrypting with the same key more than 60,000 ms after the
\* encryption yields no value, and 59,999 ms after it yields the value.
Expiry ==
    last.op = "decrypt" =>
        \A i \in Sources(last) :
            /\ last.clock - wire[i].t > FreshnessWindow => last.result = Null
            /\ last.clock - wire[i].t = FreshnessWindow - 1
                  => last.result = StringResult(wire[i].value)

\* what JSON.parse makes of the string decrypted from the blob of call c
ParsedPayload(c) == JsonParse(decryptedString(c.blob, c.key))

\* the decrypted string is the canonical payload: an object whose t is a
\* number and whose v is a string
HasPayloadShape(c) ==
    /\ decryptedString(c.blob, c.key) # Malformed
    /\ ParsedPayload(c).st = "ok"
    /\ ParsedPayload(c).val.type = "object"
    /\ GetProp(ParsedPayload(c).val, Str(<<"t">>)).type = "number"
    /\ GetProp(ParsedPayload(c).val, Str(<<"v">>)).type = "string"

Timestamp(c) == GetProp(ParsedPayload(c).val, Str(<<"t">>)).num

\* the kinds of input C3 lists: fewer than 32 decoded bytes, a plaintext
\* that is not UTF-8 or not the payload, or a payload that has expired
DecodeFailure(c) ==
    \/ Len(Base64Parse(c.blob)) < 2 * BlockSize
    \/ ~HasPayloadShape(c)
    \/ Abs(c.clock - Timestamp(c)) > FreshnessWindow

\* a canonical payload with a non-zero timestamp within 60,000 ms
CanonicalFresh(c) ==
    /\ HasPayloadShape(c)
    /\ Timestamp(c) # 0
    /\ Abs(c.clock - Timestamp(c)) <= FreshnessWindow

\* C3 (SpecForeign): whatever the blob, a decrypt call that meets a decode
\* failure returns the "no value" result.  (The model's calls return a
\* result and never raise: every step of the function is inside its try.)
QuietDecodeFailure ==
    (last.op = "decrypt" /\ DecodeFailure(last)) => NoValue(last.result)

\* C4 (SpecKeys): an encrypt call with a key that is not 16 bytes long
\* raises an error and returns no blob.
BadKeyRejected ==
    \A i \in 1..Len(wire) :
        Len(Utf8Parse(wire[i].key)) # BlockSize => wire[i].result.type = "error"

\* C5 as stated (SpecCallers): two encrypt calls with the same value and
\* key return different blobs.
DistinctBlobs ==
    \A i, j \in 1..Len(wire) :
        (i # j /\ wire[i].value = wire[j].value /\ wire[i].key = wire[j].key)
            => wire[i].result # wire[j].result

\* C5 as amended (SpecCallers): two encrypt calls with the same value and
\* key return different blobs exactly when they drew different IVs or read
\* different clock values, and each blob decrypts in the window to the value.
IVDecidesBlob ==
    /\ \A i, j \in 1..Len(wire) :
          (wire[i].value = wire[j].value /\ wire[i].key = wire[j].key)
              => ((wire[i].result # wire[j].result)
                    <=> (wire[i].iv # wire[j].iv \/ wire[i].t # wire[j].t))
    /\ last.op = "decrypt" =>
          \A i \in Sources(last) :
              Abs(last.clock - wire[i].t) <= FreshnessWindow - 1
                  => last.result = StringResult(wire[i].value)

\* two calls at the same clock reading drew different IVs, and the second
\* blob has been decrypted
IVDecidesBlobWitness ==
    /\ Len(wire) >= 2
    /\ wire[1].value = wire[2].value /\ wire[1].key = wire[2].key
    /\ wire[1].t = wire[2].t
    /\ wire[1].iv # wire[2].iv
    /\ wire[1].result # wire[2].result
    /\ last.op = "decrypt" /\ last.blob = wire[2].result.str
    /\ last.result = StringResult(wire[2].value)

\* C7 (Spec): a returned blob decodes to 16 IV bytes followed by
\* floor(L / 16) + 1 ciphertext blocks for a payload of L bytes, and the
\* decoder splits it into that IV and that ciphertext.
BlobFraming ==
    \A i \in 1..Len(wire) :
        LET rawData == Base64Parse(wire[i].result.str)
            L == Len(PayloadBytes(i))
        IN /\ wire[i].result.type = "string"
           /\ Len(wire[i].iv) = BlockSize
           /\ Len(rawData) = BlockSize + BlockSize * ((L \div BlockSize) + 1)
           /\ Len(rawData) >= 2 * BlockSize
           /\ Len(rawData) % BlockSize = 0
           /\ SplitIV(rawData) = wire[i].iv
           /\ SplitCiphertext(rawData).sigBytes = Len(rawData) - BlockSize
           /\ SplitCiphertext(rawData).words
                 = CbcEncrypt(Utf8Parse(wire[i].key), wire[i].iv,
                              Pkcs7Pad(PayloadBytes(i)))

\* a payload of exactly 16 bytes was given a whole block of padding
BlobFramingWitness ==
    \E i \in 1..Len(wire) :
        /\ Len(PayloadBytes(i)) = BlockSize
        /\ Len(Base64Parse(wire[i].result.str)) = 3 * BlockSize

\* C8 (Spec): a blob whose timestamp lies ahead of the decoder's clock is
\* accepted when it is less than 60,000 ms ahead and yields no value when
\* it is more than 60,000 ms ahead.
SymmetricWindow ==
    last.op = "decrypt" =>
        \A i \in Sources(last) :
            /\ (wire[i].t > last.clock /\ wire[i].t - last.clock < FreshnessWindow)
                  => last.result = StringResult(wire[i].value)
            /\ wire[i].t - last.clock > FreshnessWindow => last.result = Null

\* a blob stamped 60,001 ms ahead of the clock was refused
SymmetricWindowWitness ==
    /\ last.op = "decrypt"
    /\ \E i \in Sources(last) :
          /\ wire[i].t - last.clock = FreshnessWindow + 1
          /\ last.result = Null

\* C9 (SpecForeign): a decrypt call returns a value only for a payload of
\* the canonical shape whose timestamp is a non-zero integer within
\* 60,000 ms of the clock.
ReturnedValueIsFresh ==
    (last.op = "decrypt" /\ ~NoValue(last.result)) => CanonicalFresh(last)

\* the decrypt call c took a blob inside the freshness window of an encrypt
\* call made with the same key
InWindow(c) ==
    \E i \in Sources(c) : Abs(c.clock - wire[i].t) <= FreshnessWindow

\* C10 (SpecCallers): whatever encrypt calls and clock changes happened
\* before or in between, two successive decrypt calls on the same blob with
\* the same key, both inside the freshness window of the blob, return the
\* same value: the first call neither consumed the blob nor left anything
\* behind that the second one sees.
StatelessDecrypt ==
    (/\ last.op = "decrypt" /\ prev.op = "decrypt"
     /\ last.blob = prev.blob /\ last.key = prev.key
     /\ InWindow(last) /\ InWindow(prev))
        => last.result = prev.result

\* a blob was decrypted, another encrypt call was made, and the blob was
\* decrypted again at another clock reading with the same result
StatelessDecryptWitness ==
    /\ Len(wire) >= 2
    /\ last.op = "decrypt" /\ prev.op = "decrypt"
    /\ last.blob = wire[1].result.str /\ prev.blob = last.blob
    /\ last.clock # prev.clock
    /\ InWindow(last) /\ InWindow(prev)
    /\ last.result = StringResult(wire[1].value)
    /\ prev.result = last.result

====
